---------------------------- MODULE Spec2Model ----------------------------
(***************************************************************************)
(* Model of website_project/src/main.rs: a worker pool that draws URLs     *)
(* from a mutex-protected mpsc queue, runs a bounded retry loop per URL,   *)
(* sends one WebsiteStatus per URL over a result channel, and a main       *)
(* thread that joins the workers, drains the result channel and            *)
(* serializes the records as a JSON array.                                 *)
(*                                                                         *)
(* Strings are sequences of one-character strings, Option values are       *)
(* sequences of length 0 (None) or 1 (Some).                               *)
(***************************************************************************)
EXTENDS Integers, Sequences, FiniteSets, Bags, TLC

\* ------------------------------------------------------------------------
\* Bounds of the model
\* ------------------------------------------------------------------------
MaxWorkers == 2
MaxRetries == 1
MaxUrls == 2
MaxRecords == 2

None == <<>>
Some(v) == <<v>>

\* ------------------------------------------------------------------------
\* The environment: what an HTTP GET of a URL returns on its k-th attempt.
\* The URL fixes the sequence of attempt outcomes; every attempt has its own
\* error message, status code and elapsed time, so that a record shows which
\* attempt it was built from.
\* ------------------------------------------------------------------------
UrlUp == <<"u", "p">>
UrlFlaky == <<"f", "l">>
UrlDown == <<"d", "n">>
Urls == {UrlUp, UrlFlaky, UrlDown}

\* The attempt (counted from 1) at which a GET of u first succeeds; 0: never.
FirstOk(u) == CASE u = UrlUp -> 1 [] u = UrlFlaky -> 2 [] OTHER -> 0

Digits == <<"0", "1", "2", "3", "4", "5", "6", "7", "8", "9">>

RECURSIVE ToDecimal(_)
\* Integer::to_string / Display of an unsigned integer: its decimal digits.
ToDecimal(n) == IF n < 10 THEN <<Digits[n + 1]>>
                ELSE ToDecimal(n \div 10) \o <<Digits[(n % 10) + 1]>>

\* reqwest::Error::to_string() of the k-th failed attempt.
ErrMsg(k) == <<"e", "r", "r">> \o ToDecimal(k)

\* client.get(&url).send() of attempt k, with the elapsed time measured
\* around it (milliseconds).
HttpGet(u, k) ==
    IF FirstOk(u) = k
    THEN [ok |-> TRUE, code |-> 199 + k, elapsed |-> 40 + k]
    ELSE [ok |-> FALSE, err |-> ErrMsg(k), elapsed |-> 40 + k]

\* SystemTime::now() in seconds since the Unix epoch: a logical clock that
\* has ticked once for each of the n records sent before.
Now(n) == 1700000000 + n

\* ------------------------------------------------------------------------
\* WebsiteStatus and its serialization
\* ------------------------------------------------------------------------
\* Result<u16, String>
Ok(code) == [ok |-> TRUE, code |-> code]
Err(e) == [ok |-> FALSE, err |-> e]

\* struct WebsiteStatus; response_time in milliseconds, timestamp in seconds
\* since the Unix epoch (negative: before it).
WebsiteStatus(url, action_status, response_time, timestamp) ==
    [url |-> url, action_status |-> action_status,
     response_time |-> response_time, timestamp |-> timestamp]

RECURSIVE EscapeQuotes(_)
\* str::replace('"', "\\\"") : every double quote becomes backslash, quote;
\* every other character, the backslash included, is copied.
EscapeQuotes(s) ==
    IF s = <<>> THEN <<>>
    ELSE (IF Head(s) = "\"" THEN <<"\\", "\"">> ELSE <<Head(s)>>)
         \o EscapeQuotes(Tail(s))

Indent == <<" ", " ", " ", " ">>

\* The format! template of to_json_string with its four arguments in place.
JsonObject(url, status, response_time_ms, timestamp) ==
    <<"{", "\n">>
    \o Indent \o <<"\"", "u", "r", "l", "\"", ":", " ", "\"">>
    \o url \o <<"\"", ",", "\n">>
    \o Indent \o <<"\"", "s", "t", "a", "t", "u", "s", "\"", ":", " ">>
    \o status \o <<",", "\n">>
    \o Indent \o <<"\"", "r", "e", "s", "p", "o", "n", "s", "e", "_",
                    "t", "i", "m", "e", "_", "m", "s", "\"", ":", " ">>
    \o response_time_ms \o <<",", "\n">>
    \o Indent \o <<"\"", "t", "i", "m", "e", "s", "t", "a", "m", "p",
                    "\"", ":", " ">>
    \o timestamp \o <<"\n", "}">>

\* The status field: the code's digits, or the quoted error message.
StatusField(action_status) ==
    IF action_status.ok THEN ToDecimal(action_status.code)
    ELSE <<"\"">> \o EscapeQuotes(action_status.err) \o <<"\"">>

\* timestamp.duration_since(UNIX_EPOCH).unwrap_or(0).as_secs()
EpochSecs(timestamp) == IF timestamp < 0 THEN 0 ELSE timestamp

\* to_json_string with status and response_time_ms in each other's place.
to_json_string_swapped(r) ==
    JsonObject(EscapeQuotes(r.url), ToDecimal(r.response_time),
               StatusField(r.action_status), ToDecimal(EpochSecs(r.timestamp)))

\* WebsiteStatus::to_json_string
to_json_string(r) ==
    JsonObject(EscapeQuotes(r.url), StatusField(r.action_status),
               ToDecimal(r.response_time), ToDecimal(EpochSecs(r.timestamp)))

RECURSIVE Join(_, _)
\* [String]::join(sep)
Join(parts, sep) ==
    IF parts = <<>> THEN <<>>
    ELSE IF Len(parts) = 1 THEN parts[1]
    ELSE parts[1] \o sep \o Join(Tail(parts), sep)

\* format!("[\n{}\n]", all_results.iter().map(to_json_string).join(",\n"))
JsonArray(results) ==
    <<"[", "\n">>
    \o Join([i \in 1..Len(results) |-> to_json_string(results[i])], <<",", "\n">>)
    \o <<"\n", "]">>

\* ------------------------------------------------------------------------
\* Command line
\* ------------------------------------------------------------------------
\* What follows an option on the command line: the option is absent, it is
\* the last word (args.next() is None), its value is not a numeral, or its
\* value is the numeral of n.
Absent == [kind |-> "absent"]
NoValue == [kind |-> "novalue"]
Text == [kind |-> "text"]
Num(n) == [kind |-> "num", val |-> n]

WorkerArgs == {Absent, NoValue, Text} \cup {Num(n) : n \in -1..MaxWorkers}
RetryArgs == {Absent, NoValue, Text} \cup {Num(n) : n \in -1..MaxRetries}

\* args.next().and_then(|n| n.parse::<usize>().ok())
ParseUsize(a) == IF a.kind = "num" /\ a.val >= 0 THEN Some(a.val) ELSE None

\* args.next().and_then(|r| r.parse::<i32>().ok())
ParseI32(a) == IF a.kind = "num" THEN Some(a.val) ELSE None

\* std::thread::available_parallelism().map(|n| n.get()).unwrap_or(1):
\* a NonZeroUsize, or 1.
HostParallelism == 1..MaxWorkers

\* The "--workers" arm: the parsed count, or the default when there is none.
WorkersOption(a, current, host) ==
    IF a.kind = "absent" THEN current
    ELSE IF ParseUsize(a) # None THEN ParseUsize(a)[1] ELSE host

\* The "--retries" arm: the parsed count, or 0.
RetriesOption(a, current) ==
    IF a.kind = "absent" THEN current
    ELSE IF ParseI32(a) # None THEN ParseI32(a)[1] ELSE 0

RECURSIVE SeqsUpTo(_, _)
\* The sequences over S of length at most n.
SeqsUpTo(S, n) ==
    IF n = 0 THEN {<<>>}
    ELSE LET shorter == SeqsUpTo(S, n - 1)
         IN  shorter \cup {Append(q, x) : q \in shorter, x \in S}

\* ------------------------------------------------------------------------
\* State
\* ------------------------------------------------------------------------
VARIABLES
    args,            \* the command line not yet parsed
    pc_main,         \* where the main thread is
    workers,         \* let mut workers
    retries,         \* let mut retries
    urls,            \* let mut urls
    next_url,        \* how many of urls the send loop has sent
    spawned,         \* handles.len()
    joined,          \* how many handles have been joined
    sender_alive,    \* whether sender (of the URL queue) is not yet dropped
    queue,           \* the URL channel's buffer
    mutex,           \* the worker holding the receiver's Mutex, or 0
    result_senders,  \* live clones of result_sender, main's included
    result_chan,     \* the result channel's buffer
    all_results,     \* let mut all_results
    json_string,     \* let json_string
    wk,              \* per worker: its position and the closure's locals
    http_calls,      \* history: per enqueued URL, the GETs sent for it
    dequeued,        \* history: per enqueued URL, the recv()s that returned it
    emitted,         \* history: per enqueued URL, the record built for it
    sleeps,          \* history: per enqueued URL, the backoff sleeps taken
    file,            \* status.json: None, or Some(its content)
    console          \* what main has printed after serializing, in order

vars == <<args, pc_main, workers, retries, urls, next_url, spawned, joined,
          sender_alive, queue, mutex, result_senders, result_chan,
          all_results, json_string, wk, http_calls, dequeued, emitted,
          sleeps, file, console>>

Workers == 1..MaxWorkers
Ids == 1..MaxUrls

\* A worker thread that has not been spawned, or is between two URLs.
Idle(pc) == [pc |-> pc, item |-> None, attempt |-> 0, last_error |-> None,
             response_time |-> 0, status_code |-> None]

Init ==
    /\ args \in [workers : WorkerArgs, retries : RetryArgs,
                 urls : SeqsUpTo(Urls, MaxUrls)]
    /\ pc_main = "parse"
    /\ workers \in HostParallelism
    /\ retries = 0
    /\ urls = <<>>
    /\ next_url = 0
    /\ spawned = 0
    /\ joined = 0
    /\ sender_alive = FALSE
    /\ queue = <<>>
    /\ mutex = 0
    /\ result_senders = 0
    /\ result_chan = <<>>
    /\ all_results = <<>>
    /\ json_string = <<>>
    /\ wk = [w \in Workers |-> Idle("unspawned")]
    /\ http_calls = [i \in Ids |-> 0]
    /\ dequeued = [i \in Ids |-> 0]
    /\ emitted = [i \in Ids |-> None]
    /\ sleeps = [i \in Ids |-> 0]
    /\ file = None
    /\ console = <<>>

\* The process is running: main has neither called process::exit nor
\* panicked (either ends every thread).
Running == pc_main \notin {"exit", "panicked"}

\* ------------------------------------------------------------------------
\* The main thread
\* ------------------------------------------------------------------------
\* The argument loop and the check for an empty URL list (print_usage exits).
ParseArgs ==
    /\ pc_main = "parse"
    /\ \E host \in HostParallelism :
          workers' = WorkersOption(args.workers, workers, host)
    /\ retries' = RetriesOption(args.retries, retries)
    /\ urls' = args.urls
    /\ args' = [workers |-> Absent, retries |-> Absent, urls |-> <<>>]
    /\ pc_main' = IF args.urls = <<>> THEN "exit" ELSE "client"
    /\ UNCHANGED <<next_url, spawned, joined, sender_alive, queue, mutex,
                   result_senders, result_chan, all_results, json_string, wk,
                   http_calls, dequeued, emitted,
                   sleeps, file, console>>

\* Where main goes once n handles are pushed.
AfterSpawn(n, w) == IF n < w THEN "spawn" ELSE "send"

\* Client::builder().build(), then the two channels are created.
BuildClient ==
    /\ pc_main = "client"
    /\ \E built \in BOOLEAN :
          IF built
          THEN /\ pc_main' = AfterSpawn(0, workers)
               /\ sender_alive' = TRUE
               /\ result_senders' = 1
          ELSE /\ pc_main' = "exit"
               /\ UNCHANGED <<sender_alive, result_senders>>
    /\ UNCHANGED <<args, workers, retries, urls, next_url, spawned, joined,
                   queue, mutex, result_chan, all_results, json_string, wk,
                   http_calls, dequeued, emitted,
                   sleeps, file, console>>

\* One turn of "for _ in 0..workers": clone result_sender, spawn, push.
SpawnWorker ==
    /\ pc_main = "spawn"
    /\ spawned < workers
    /\ spawned' = spawned + 1
    /\ result_senders' = result_senders + 1
    /\ wk' = [wk EXCEPT ![spawned + 1] = Idle("lock")]
    /\ pc_main' = AfterSpawn(spawned + 1, workers)
    /\ UNCHANGED <<args, workers, retries, urls, next_url, joined,
                   sender_alive, queue, mutex, result_chan, all_results,
                   json_string, http_calls, dequeued, emitted,
                   sleeps, file, console>>

\* A send that keeps one value only: a value sent to a buffer that holds one
\* is dropped.
ChanSendLossy(ch, v) == IF ch = <<>> THEN <<v>> ELSE ch

\* mpsc::Sender::send: the value goes to the end of the buffer.
ChanSend(ch, v) == Append(ch, v)

\* One turn of "for url in urls": sender.send(url). The receiver lives in an
\* Arc that main holds to its end, so the send does not fail.
SendUrl ==
    /\ pc_main = "send"
    /\ next_url < Len(urls)
    /\ queue' = ChanSend(queue, [id |-> next_url + 1, url |-> urls[next_url + 1]])
    /\ next_url' = next_url + 1
    /\ pc_main' = IF next_url + 1 < Len(urls) THEN "send" ELSE "drop"
    /\ UNCHANGED <<args, workers, retries, urls, spawned, joined,
                   sender_alive, mutex, result_senders, result_chan,
                   all_results, json_string, wk, http_calls, dequeued, emitted,
                   sleeps, file, console>>

\* A main that does not wait for the handles.
AfterJoinSkipsJoin(n) == "collect"

\* Where main goes once n handles are joined.
AfterJoin(n) == IF n < spawned THEN "join" ELSE "collect"

\* A main that goes on to join without dropping sender.
DropSenderForgotten ==
    /\ pc_main = "drop"
    /\ pc_main' = IF 0 < spawned THEN "join" ELSE "collect"
    /\ UNCHANGED <<args, workers, retries, urls, next_url, spawned, joined,
                   sender_alive, queue, mutex, result_senders, result_chan,
                   all_results, json_string, wk, http_calls, dequeued,
                   emitted, sleeps, file, console>>

\* drop(sender)
DropSender ==
    /\ pc_main = "drop"
    /\ sender_alive' = FALSE
    /\ pc_main' = AfterJoin(0)
    /\ UNCHANGED <<args, workers, retries, urls, next_url, spawned, joined,
                   queue, mutex, result_senders, result_chan, all_results,
                   json_string, wk, http_calls, dequeued, emitted,
                   sleeps, file, console>>

\* One turn of "for handle in handles": handle.join().unwrap(), which
\* blocks until the thread has ended and panics if the thread panicked.
JoinWorker ==
    /\ pc_main = "join"
    /\ joined < spawned
    /\ wk[joined + 1].pc \in {"done", "panicked"}
    /\ joined' = joined + 1
    /\ pc_main' = IF wk[joined + 1].pc = "panicked" THEN "panicked"
                  ELSE AfterJoin(joined + 1)
    /\ UNCHANGED <<args, workers, retries, urls, next_url, spawned,
                   sender_alive, queue, mutex, result_senders, result_chan,
                   all_results, json_string, wk, http_calls, dequeued, emitted,
                   sleeps, file, console>>

\* A recv that leaves the value it returns in the buffer.
ChanRecvPeek(ch) == [value |-> Head(ch), rest |-> ch]

\* mpsc::Receiver::recv on a buffer that holds a value: the oldest value,
\* and the buffer without it.
ChanRecv(ch) == [value |-> Head(ch), rest |-> Tail(ch)]

\* A recv that gives up on an empty buffer, as try_recv does.
DisconnectedWhenEmpty(ch, senders) == ch = <<>>

\* recv returns Err(RecvError): the buffer is empty and no Sender is left.
\* (With an empty buffer and a live Sender it blocks.)
Disconnected(ch, senders) == ch = <<>> /\ senders = 0

\* One turn of "while let Ok(status) = result_receiver.recv()".
Collect ==
    /\ pc_main = "collect"
    /\ result_chan # <<>>
    /\ all_results' = Append(all_results, ChanRecv(result_chan).value)
    /\ result_chan' = ChanRecv(result_chan).rest
    /\ UNCHANGED <<args, pc_main, workers, retries, urls, next_url, spawned,
                   joined, sender_alive, queue, mutex, result_senders,
                   json_string, wk, http_calls, dequeued, emitted,
                   sleeps, file, console>>

\* The end of the collecting loop: recv returns Err.
CollectExit ==
    /\ pc_main = "collect"
    /\ Disconnected(result_chan, result_senders)
    /\ pc_main' = "serialize"
    /\ UNCHANGED <<args, workers, retries, urls, next_url, spawned, joined,
                   sender_alive, queue, mutex, result_senders, result_chan,
                   all_results, json_string, wk, http_calls, dequeued, emitted,
                   sleeps, file, console>>

\* let json_string = format!(...)
Serialize ==
    /\ pc_main = "serialize"
    /\ json_string' = JsonArray(all_results)
    /\ pc_main' = "write"
    /\ UNCHANGED <<args, workers, retries, urls, next_url, spawned, joined,
                   sender_alive, queue, mutex, result_senders, result_chan,
                   all_results, wk, http_calls, dequeued, emitted,
                   sleeps, file, console>>

\* A line on the console: println! writes to stdout, eprintln! to stderr;
\* detail is the io::Error a warning was formatted with.
Line(stream, text, detail) == [stream |-> stream, text |-> text, detail |-> detail]

ResultsWritten == Line("stdout", "Results written to status.json", None)

\* The io::Error values File::create and write_all are taken to fail with.
CreateErrors == {"PermissionDenied"}
WriteErrors == {"StorageFull"}

\* How many bytes of s reach the file when write_all fails: none, or all
\* but the last.
ShortWrites(s) == {0, Len(s) - 1}

\* match File::create("status.json"): Ok truncates or creates the file; the
\* Err arm prints a warning and main returns.
CreateFile ==
    /\ pc_main = "write"
    /\ \/ /\ file' = Some(<<>>)
          /\ pc_main' = "write_all"
          /\ UNCHANGED console
       \/ \E e \in CreateErrors :
             /\ console' = Append(console,
                                  Line("stderr", "Failed to create status.json", Some(e)))
             /\ pc_main' = "end"
             /\ UNCHANGED file
    /\ UNCHANGED <<args, workers, retries, urls, next_url, spawned, joined,
                   sender_alive, queue, mutex, result_senders, result_chan,
                   all_results, json_string, wk, http_calls, dequeued, emitted,
                   sleeps>>

\* As WriteResult, with .unwrap() in place of .unwrap_or_else(..).
WriteResultUnwrap(con, res) ==
    IF res.ok
    THEN [pc |-> "end", console |-> Append(con, ResultsWritten)]
    ELSE [pc |-> "panicked",
          console |-> Append(con, Line("stderr", "panicked at unwrap", Some(res.err)))]

\* write_all(..).unwrap_or_else(|e| eprintln!(..)); println!(..): the
\* closure only prints, and the println! follows in either case.
WriteResult(con, res) ==
    IF res.ok
    THEN [pc |-> "end", console |-> Append(con, ResultsWritten)]
    ELSE [pc |-> "end",
          console |-> con \o <<Line("stderr", "Failed to write JSON file", Some(res.err)),
                               ResultsWritten>>]

\* file.write_all(json_string.as_bytes()) and what follows it in the Ok arm.
WriteAll ==
    /\ pc_main = "write_all"
    /\ \/ /\ file' = Some(json_string)
          /\ pc_main' = WriteResult(console, Ok(0)).pc
          /\ console' = WriteResult(console, Ok(0)).console
       \/ \E e \in WriteErrors, n \in ShortWrites(json_string) :
             /\ file' = Some(SubSeq(json_string, 1, n))
             /\ pc_main' = WriteResult(console, Err(e)).pc
             /\ console' = WriteResult(console, Err(e)).console
    /\ UNCHANGED <<args, workers, retries, urls, next_url, spawned, joined,
                   sender_alive, queue, mutex, result_senders, result_chan,
                   all_results, json_string, wk, http_calls, dequeued, emitted,
                   sleeps>>

\* ------------------------------------------------------------------------
\* The worker threads
\* ------------------------------------------------------------------------
\* receiver.lock().unwrap(): blocks while another worker holds the Mutex.
\* No thread panics while holding it, so it is never poisoned.
Lock(w) ==
    /\ Running
    /\ wk[w].pc = "lock"
    /\ mutex = 0
    /\ mutex' = w
    /\ wk' = [wk EXCEPT ![w].pc = "recv"]
    /\ UNCHANGED <<args, pc_main, workers, retries, urls, next_url, spawned,
                   joined, sender_alive, queue, result_senders, result_chan,
                   all_results, json_string, http_calls, dequeued, emitted,
                   sleeps, file, console>>

\* The locals at the top of the loop body for a dequeued item, and the entry
\* of "for attempt in 0..=retries" (an empty range when retries < 0).
StartUrl(item, r) ==
    [pc |-> IF 0 <= r THEN "attempt" ELSE "emit", item |-> Some(item),
     attempt |-> 0, last_error |-> None, response_time |-> 0,
     status_code |-> None]

\* A guard that lives through the loop body, as the temporary of
\* "while let Ok(url) = receiver.lock().unwrap().recv()" does.
GuardHeldInBody(w) == w

\* The holder of the Mutex once worker w leaves the block around recv: the
\* guard is a local of the block and is dropped at its end.
GuardAfterRecv(w) == 0

\* receiver.recv() returns Ok(url) under the lock; the guard is dropped at
\* the end of the block.
RecvUrl(w) ==
    /\ Running
    /\ wk[w].pc = "recv"
    /\ mutex = w
    /\ queue # <<>>
    /\ LET got == ChanRecv(queue)
       IN  /\ queue' = got.rest
           /\ wk' = [wk EXCEPT ![w] = StartUrl(got.value, retries)]
           /\ dequeued' = [dequeued EXCEPT ![got.value.id] = @ + 1]
    /\ mutex' = GuardAfterRecv(w)
    /\ UNCHANGED <<args, pc_main, workers, retries, urls, next_url, spawned,
                   joined, sender_alive, result_senders, result_chan,
                   all_results, json_string, http_calls, emitted,
                   sleeps, file, console>>

\* receiver.recv() returns Err: the queue is closed and empty. The loop and
\* the thread end, which drops the worker's clone of result_sender.
RecvClosed(w) ==
    /\ Running
    /\ wk[w].pc = "recv"
    /\ mutex = w
    /\ Disconnected(queue, IF sender_alive THEN 1 ELSE 0)
    /\ mutex' = 0
    /\ wk' = [wk EXCEPT ![w] = Idle("done")]
    /\ result_senders' = result_senders - 1
    /\ UNCHANGED <<args, pc_main, workers, retries, urls, next_url, spawned,
                   joined, sender_alive, queue, result_chan, all_results,
                   json_string, http_calls, dequeued, emitted,
                   sleeps, file, console>>

\* The retry test off by one (attempt + 1 < retries): the last retry of a
\* budget of one or more is not taken.
AfterAttemptExclusive(loc, res, r) ==
    IF res.ok
    THEN [loc EXCEPT !.status_code = Some(res.code),
                     !.response_time = res.elapsed,
                     !.pc = "emit"]
    ELSE [loc EXCEPT !.last_error = Some(res.err),
                     !.pc = IF loc.attempt + 1 < r THEN "sleep" ELSE "emit"]

\* A loop without the break: a success is retried like a failure.
AfterAttemptNoBreak(loc, res, r) ==
    [(IF res.ok
      THEN [loc EXCEPT !.status_code = Some(res.code),
                       !.response_time = res.elapsed]
      ELSE [loc EXCEPT !.last_error = Some(res.err)])
     EXCEPT !.pc = IF loc.attempt < r THEN "sleep" ELSE "emit"]

\* A loop that breaks in the Err arm too: no retry is ever taken.
AfterAttemptGivesUp(loc, res, r) ==
    IF res.ok
    THEN [loc EXCEPT !.status_code = Some(res.code),
                     !.response_time = res.elapsed,
                     !.pc = "emit"]
    ELSE [loc EXCEPT !.last_error = Some(res.err), !.pc = "emit"]

\* A loop that sleeps after every failed attempt, the last one included.
AfterAttemptAlwaysSleeps(loc, res, r) ==
    IF res.ok
    THEN [loc EXCEPT !.status_code = Some(res.code),
                     !.response_time = res.elapsed,
                     !.pc = "emit"]
    ELSE [loc EXCEPT !.last_error = Some(res.err), !.pc = "sleep"]

\* The match on the attempt's result and what the for loop does next:
\* break on Ok; on Err sleep if attempt < retries, and leave the loop when
\* the range is used up.
AfterAttempt(loc, res, r) ==
    IF res.ok
    THEN [loc EXCEPT !.status_code = Some(res.code),
                     !.response_time = res.elapsed,
                     !.pc = "emit"]
    ELSE [loc EXCEPT !.last_error = Some(res.err),
                     !.pc = IF loc.attempt < r THEN "sleep" ELSE "emit"]

\* One turn of the retry loop up to the sleep: the GET is sent and answered.
Attempt(w) ==
    /\ Running
    /\ wk[w].pc = "attempt"
    /\ LET item == wk[w].item[1]
           res == HttpGet(item.url, wk[w].attempt + 1)
       IN  /\ wk' = [wk EXCEPT ![w] = AfterAttempt(wk[w], res, retries)]
           /\ http_calls' = [http_calls EXCEPT ![item.id] = @ + 1]
    /\ UNCHANGED <<args, pc_main, workers, retries, urls, next_url, spawned,
                   joined, sender_alive, queue, mutex, result_senders,
                   result_chan, all_results, json_string, dequeued, emitted,
                   sleeps, file, console>>

\* The for loop's step after the sleep: the next attempt of the range
\* 0..=retries, or the end of the loop when there is none.
AfterSleep(loc, r) ==
    [loc EXCEPT !.attempt = @ + 1,
                !.pc = IF loc.attempt + 1 <= r THEN "attempt" ELSE "emit"]

\* thread::sleep(100ms) ends and the loop goes on.
Backoff(w) ==
    /\ Running
    /\ wk[w].pc = "sleep"
    /\ wk' = [wk EXCEPT ![w] = AfterSleep(wk[w], retries)]
    /\ sleeps' = [sleeps EXCEPT ![wk[w].item[1].id] = @ + 1]
    /\ UNCHANGED <<args, pc_main, workers, retries, urls, next_url, spawned,
                   joined, sender_alive, queue, mutex, result_senders,
                   result_chan, all_results, json_string, http_calls,
                   dequeued, emitted, file, console>>

\* last_error.unwrap() is reached with last_error None.
UnwrapsNone(loc) == loc.status_code = None /\ loc.last_error = None

\* let status = WebsiteStatus { ... }
BuildStatus(loc, now) ==
    WebsiteStatus(loc.item[1].url,
                  IF loc.status_code # None THEN Ok(loc.status_code[1])
                  ELSE Err(loc.last_error[1]),
                  loc.response_time, now)

\* A worker that leaves its loop after a Failure record.
AfterEmitStopsOnFailure(loc) ==
    IF loc.status_code = None THEN Idle("done") ELSE Idle("lock")

\* The end of the while loop's body: the locals are dropped and the worker
\* goes back to the lock for its next URL, whatever the record was.
AfterEmit(loc) == Idle("lock")

\* The record is built, printed and sent; the loop goes back to the lock.
\* main holds result_receiver to its end, so the send does not fail.
Emit(w) ==
    /\ Running
    /\ wk[w].pc = "emit"
    /\ ~UnwrapsNone(wk[w])
    /\ LET status == BuildStatus(wk[w], Now(Len(result_chan) + Len(all_results)))
       IN  /\ result_chan' = ChanSend(result_chan, status)
           /\ emitted' = [emitted EXCEPT ![wk[w].item[1].id] = Some(status)]
    /\ wk' = [wk EXCEPT ![w] = AfterEmit(wk[w])]
    /\ UNCHANGED <<args, pc_main, workers, retries, urls, next_url, spawned,
                   joined, sender_alive, queue, mutex, result_senders,
                   all_results, json_string, http_calls, dequeued,
                   sleeps, file, console>>

\* last_error.unwrap() panics: the thread unwinds, dropping its clone of
\* result_sender. It holds no lock at this point.
EmitPanic(w) ==
    /\ Running
    /\ wk[w].pc = "emit"
    /\ UnwrapsNone(wk[w])
    /\ wk' = [wk EXCEPT ![w] = Idle("panicked")]
    /\ result_senders' = result_senders - 1
    /\ UNCHANGED <<args, pc_main, workers, retries, urls, next_url, spawned,
                   joined, sender_alive, queue, mutex, result_chan,
                   all_results, json_string, http_calls, dequeued, emitted,
                   sleeps, file, console>>

\* ------------------------------------------------------------------------
\* Specifications
\* ------------------------------------------------------------------------
\* The run from the command line on. CollectExit and Serialize are not
\* steps of it: see CollectNeverExits.
Next ==
    \/ ParseArgs
    \/ BuildClient
    \/ SpawnWorker
    \/ SendUrl
    \/ DropSender
    \/ JoinWorker
    \/ Collect
    \/ \E w \in Workers : Lock(w)
    \/ \E w \in Workers : RecvUrl(w)
    \/ \E w \in Workers : RecvClosed(w)
    \/ \E w \in Workers : Attempt(w)
    \/ \E w \in Workers : Backoff(w)
    \/ \E w \in Workers : Emit(w)
    \/ \E w \in Workers : EmitPanic(w)

Spec == Init /\ [][Next]_vars

\* The steps of the main thread and of worker w.
MainStep ==
    \/ ParseArgs \/ BuildClient \/ SpawnWorker \/ SendUrl \/ DropSender
    \/ JoinWorker \/ Collect

WorkerStep(w) ==
    \/ Lock(w) \/ RecvUrl(w) \/ RecvClosed(w) \/ Attempt(w) \/ Backoff(w)
    \/ Emit(w) \/ EmitPanic(w)

\* The run under fair scheduling: a thread that can take a step and stays
\* able to takes it; in particular every GET returns and every sleep ends.
FairSpec ==
    /\ Spec
    /\ WF_vars(MainStep)
    /\ \A w \in Workers : WF_vars(WorkerStep(w))

\* main still holds result_sender while it drains the channel, so recv
\* never returns Err there.
CollectNeverExits == ~ENABLED CollectExit

\* ------------------------------------------------------------------------
\* The serializer on its own: main at the serialization step with a
\* collection of records whose strings range over x, the double quote and
\* the backslash.
\* ------------------------------------------------------------------------
JsonStrings == {<<"x">>, <<"\"">>, <<"\\">>, <<"\\", "\"">>, <<"x", "\"", "y">>}

\* {url: "http://x", code: 200, response_time: 42ms, timestamp: 1700000000}
SampleRecord ==
    WebsiteStatus(<<"h", "t", "t", "p", ":", "/", "/", "x">>, Ok(200), 42, Now(0))

\* A record whose timestamp lies before the Unix epoch.
PreEpochRecord == WebsiteStatus(<<"x">>, Ok(404), 0, -1)

ReportRecords ==
    {WebsiteStatus(u, st, 42, Now(0)) :
        u \in JsonStrings, st \in {Ok(200)} \cup {Err(e) : e \in JsonStrings}}
    \cup {SampleRecord, PreEpochRecord}

InitReport ==
    /\ all_results \in SeqsUpTo(ReportRecords, MaxRecords)
    /\ pc_main = "serialize"
    /\ args = [workers |-> Absent, retries |-> Absent, urls |-> <<>>]
    /\ workers = 1
    /\ retries = 0
    /\ urls = [i \in 1..Len(all_results) |-> all_results[i].url]
    /\ next_url = Len(all_results)
    /\ spawned = 1
    /\ joined = 1
    /\ sender_alive = FALSE
    /\ queue = <<>>
    /\ mutex = 0
    /\ result_senders = 0
    /\ result_chan = <<>>
    /\ json_string = <<>>
    /\ wk = [w \in Workers |-> Idle(IF w = 1 THEN "done" ELSE "unspawned")]
    /\ http_calls = [i \in Ids |-> 0]
    /\ dequeued = [i \in Ids |-> 0]
    /\ emitted = [i \in Ids |-> None]
    /\ sleeps = [i \in Ids |-> 0]
    /\ file = None
    /\ console = <<>>

NextReport == Serialize \/ CreateFile \/ WriteAll

SpecReport == InitReport /\ [][NextReport]_vars

\* ------------------------------------------------------------------------
\* A JSON decoder (RFC 8259) for the texts the serializer can produce:
\* whitespace, strings with the two-character escapes, integers, arrays and
\* objects. A decoded value is [t |-> kind, v |-> content].
\* ------------------------------------------------------------------------
JsonFail == [ok |-> FALSE, pos |-> 0, val |-> <<>>]
JsonOk(pos, val) == [ok |-> TRUE, pos |-> pos, val |-> val]

JsonWs == {" ", "\n", "\r", "\t"}

RECURSIVE SkipWs(_, _)
SkipWs(s, i) == IF i <= Len(s) /\ s[i] \in JsonWs THEN SkipWs(s, i + 1) ELSE i

\* The character an escape \c stands for (backspace and form feed by
\* name), or None.
Unescape(c) ==
    CASE c = "\"" -> Some("\"")
      [] c = "\\" -> Some("\\")
      [] c = "/" -> Some("/")
      [] c = "n" -> Some("\n")
      [] c = "r" -> Some("\r")
      [] c = "t" -> Some("\t")
      [] c = "b" -> Some("<BS>")
      [] c = "f" -> Some("<FF>")
      [] OTHER -> None

RECURSIVE ParseChars(_, _, _)
\* The rest of a string literal from position i on, acc decoded so far.
ParseChars(s, i, acc) ==
    IF i > Len(s) THEN JsonFail
    ELSE IF s[i] = "\"" THEN JsonOk(i + 1, [t |-> "string", v |-> acc])
    ELSE IF s[i] = "\\"
         THEN IF i + 1 > Len(s) \/ Unescape(s[i + 1]) = None THEN JsonFail
              ELSE ParseChars(s, i + 2, acc \o Unescape(s[i + 1]))
    ELSE IF s[i] \in {"\n", "\r", "\t"} THEN JsonFail
    ELSE ParseChars(s, i + 1, Append(acc, s[i]))

DigitChars == {Digits[d] : d \in 1..10}
DigitValue(c) == CHOOSE d \in 0..9 : Digits[d + 1] = c

RECURSIVE ParseDigits(_, _, _)
ParseDigits(s, i, acc) ==
    IF i <= Len(s) /\ s[i] \in DigitChars
    THEN ParseDigits(s, i + 1, acc * 10 + DigitValue(s[i]))
    ELSE JsonOk(i, [t |-> "number", v |-> acc])

\* An integer: digits without a leading zero, or 0 alone.
ParseNumber(s, i) ==
    IF s[i] = "0"
    THEN IF i + 1 <= Len(s) /\ s[i + 1] \in DigitChars THEN JsonFail
         ELSE JsonOk(i + 1, [t |-> "number", v |-> 0])
    ELSE ParseDigits(s, i, 0)

RECURSIVE ParseValue(_, _)
RECURSIVE ParseElements(_, _, _)
RECURSIVE ParseMembers(_, _, _)

\* The elements of an array after "[" or ",": value, then "," or "]".
ParseElements(s, i, acc) ==
    LET e == ParseValue(s, i)
        j == SkipWs(s, e.pos)
    IN  IF ~e.ok \/ j > Len(s) THEN JsonFail
        ELSE IF s[j] = "," THEN ParseElements(s, j + 1, Append(acc, e.val))
        ELSE IF s[j] = "]" THEN JsonOk(j + 1, [t |-> "array", v |-> Append(acc, e.val)])
        ELSE JsonFail

\* The members of an object after "{" or ",": string, ":", value, then ","
\* or "}".
ParseMembers(s, i, acc) ==
    LET k == SkipWs(s, i)
        key == IF k <= Len(s) /\ s[k] = "\"" THEN ParseChars(s, k + 1, <<>>)
               ELSE JsonFail
        c == SkipWs(s, key.pos)
        val == IF key.ok /\ c <= Len(s) /\ s[c] = ":" THEN ParseValue(s, c + 1)
               ELSE JsonFail
        j == SkipWs(s, val.pos)
        member == [key |-> key.val.v, value |-> val.val]
    IN  IF ~val.ok \/ j > Len(s) THEN JsonFail
        ELSE IF s[j] = "," THEN ParseMembers(s, j + 1, Append(acc, member))
        ELSE IF s[j] = "}" THEN JsonOk(j + 1, [t |-> "object", v |-> Append(acc, member)])
        ELSE JsonFail

ParseValue(s, i) ==
    LET j == SkipWs(s, i)
    IN  IF j > Len(s) THEN JsonFail
        ELSE IF s[j] = "\"" THEN ParseChars(s, j + 1, <<>>)
        ELSE IF s[j] \in DigitChars THEN ParseNumber(s, j)
        ELSE IF s[j] = "["
             THEN LET k == SkipWs(s, j + 1)
                  IN  IF k <= Len(s) /\ s[k] = "]"
                      THEN JsonOk(k + 1, [t |-> "array", v |-> <<>>])
                      ELSE ParseElements(s, j + 1, <<>>)
        ELSE IF s[j] = "{"
             THEN LET k == SkipWs(s, j + 1)
                  IN  IF k <= Len(s) /\ s[k] = "}"
                      THEN JsonOk(k + 1, [t |-> "object", v |-> <<>>])
                      ELSE ParseMembers(s, j + 1, <<>>)
        ELSE JsonFail

\* The value a JSON text decodes to, or None when it is not valid JSON.
JsonDecode(s) ==
    LET r == ParseValue(s, 1)
    IN  IF r.ok /\ SkipWs(s, r.pos) > Len(s) THEN Some(r.val) ELSE None

\* Whether object obj has a member key whose value is a string (a number)
\* equal to want.
HasMember(obj, key, kind, want) ==
    /\ obj.t = "object"
    /\ \E m \in 1..Len(obj.v) :
          /\ obj.v[m].key = key
          /\ obj.v[m].value.t = kind
          /\ obj.v[m].value.v = want

\* ------------------------------------------------------------------------
\* Properties
\* ------------------------------------------------------------------------
\* The configuration the core is specified for: a positive worker count and
\* a retry budget of zero or more.
ValidConfig == workers >= 1 /\ retries >= 0

Submitted == 1..Len(urls)

\* Every worker of the pool has been spawned and its thread has ended.
WorkersTerminated ==
    /\ pc_main \in {"send", "drop", "join", "collect"}
    /\ \A w \in 1..spawned : wk[w].pc \in {"done", "panicked"}

\* The records sent so far, in the order the result channel delivers them.
Delivered == all_results \o result_chan

\* A sequence of strings as a multiset.
UrlBag(us) ==
    [u \in {us[i] : i \in 1..Len(us)} |->
        Cardinality({i \in 1..Len(us) : us[i] = u})]

RecordUrls(rs) == [i \in 1..Len(rs) |-> rs[i].url]

\* A record's (url, outcome) pair.
Outcome(r) == <<r.url, r.action_status.ok,
                IF r.action_status.ok THEN ToDecimal(r.action_status.code)
                ELSE r.action_status.err>>

Outcomes(rs) == [i \in 1..Len(rs) |-> Outcome(rs[i])]

RECURSIVE RunLoop(_, _)
\* The retry loop of one URL run on its own, from the locals loc to its end.
RunLoop(loc, r) ==
    IF loc.pc = "attempt"
    THEN RunLoop(AfterAttempt(loc, HttpGet(loc.item[1].url, loc.attempt + 1), r), r)
    ELSE IF loc.pc = "sleep"
    THEN RunLoop(AfterSleep(loc, r), r)
    ELSE loc

\* The outcomes a single thread produces going through us in order.
SequentialOutcomes(us, r) ==
    [i \in 1..Len(us) |->
        Outcome(BuildStatus(RunLoop(StartUrl([id |-> i, url |-> us[i]], r), r), 0))]

\* C1 (as claimed; the code falls short of it): with a positive worker count
\* and a retry budget of zero or more, the run is never stuck before the
\* report is serialized: in every state the main thread has reached the
\* serialization step or some thread can take a step; in particular, once
\* the workers are joined and every record is collected, the draining loop
\* ends.
C1_DrainTerminates ==
    (ValidConfig /\ Running)
        => (pc_main \in {"serialize", "write"} \/ ENABLED (Next \/ CollectExit))

\* C2: with a positive worker count (and a retry budget of zero or more),
\* once all workers have terminated the records sent to the Collector carry
\* exactly the multiset of the submitted URLs, and when the Collector has
\* emptied the channel it holds exactly N records.
C2_NoLossNoDuplication ==
    (ValidConfig /\ WorkersTerminated)
        => /\ UrlBag(RecordUrls(Delivered)) = UrlBag(urls)
           /\ Len(Delivered) = Len(urls)
           /\ (pc_main = "collect" /\ result_chan = <<>>
                  => Len(all_results) = Len(urls))

\* C2 witness: two workers, the same URL submitted twice, both records
\* collected.
C2_Witness ==
    /\ workers = 2 /\ retries >= 0
    /\ Len(urls) = 2 /\ urls[1] = urls[2]
    /\ pc_main = "collect" /\ result_chan = <<>> /\ Len(all_results) = 2

\* C3: no enqueued URL is returned by recv twice, no two workers hold the
\* same enqueued URL, and once all workers have terminated (positive worker
\* count, retry budget of zero or more) the queue is empty and every
\* enqueued URL was dequeued exactly once.
C3_ExactlyOneWorker ==
    /\ \A i \in Ids : dequeued[i] <= 1
    /\ \A v, w \in Workers :
          (v # w /\ wk[v].item # None /\ wk[w].item # None)
              => wk[v].item[1].id # wk[w].item[1].id
    /\ (ValidConfig /\ WorkersTerminated)
          => /\ queue = <<>>
             /\ \A i \in Submitted : dequeued[i] = 1

\* C3 witness: two workers have terminated after two URLs, and each of them
\* had dequeued one while the other was still in its retry loop.
C3_Witness ==
    /\ workers = 2 /\ retries >= 0 /\ Len(urls) = 2
    /\ WorkersTerminated /\ pc_main = "collect"
    /\ \A i \in Submitted : dequeued[i] = 1

\* The URL of the i-th enqueued item fails at each of the retries + 1
\* attempts.
AlwaysFails(i) == FirstOk(urls[i]) \notin 1..(retries + 1)

\* C4: for a URL whose every attempt fails and a retry budget R >= 0, never
\* more than R + 1 attempts are made, and when its record is emitted exactly
\* R + 1 were made and the record is a Failure with the error message of
\* attempt R + 1.
C4_ExhaustedBudget ==
    \A i \in Submitted :
        (retries >= 0 /\ AlwaysFails(i))
            => /\ http_calls[i] <= retries + 1
               /\ emitted[i] # None
                    => /\ http_calls[i] = retries + 1
                       /\ emitted[i][1].url = urls[i]
                       /\ emitted[i][1].action_status
                            = Err(HttpGet(urls[i], retries + 1).err)
                       /\ \E k \in 1..Len(Delivered) : Delivered[k] = emitted[i][1]

\* C4 witness: with a retry budget of 1, the record of an always-failing
\* URL has been emitted after two attempts.
C4_Witness ==
    \E i \in Submitted :
        /\ retries = 1 /\ AlwaysFails(i)
        /\ emitted[i] # None /\ http_calls[i] = 2
        /\ ~emitted[i][1].action_status.ok

\* C5: for a URL that first succeeds at attempt k, 1 <= k <= R + 1, never
\* more than k attempts are made, and its record is a Success with the
\* status code of attempt k, emitted after exactly k attempts.
C5_StopsAtSuccess ==
    \A i \in Submitted :
        (retries >= 0 /\ ~AlwaysFails(i))
            => /\ http_calls[i] <= FirstOk(urls[i])
               /\ emitted[i] # None
                    => /\ http_calls[i] = FirstOk(urls[i])
                       /\ emitted[i][1].url = urls[i]
                       /\ emitted[i][1].action_status
                            = Ok(HttpGet(urls[i], FirstOk(urls[i])).code)

\* C5 witness: a URL that fails once and then succeeds has its Success
\* record emitted after two attempts, and so has one that succeeds at once
\* after one.
C5_Witness ==
    /\ \E i \in Submitted :
          /\ FirstOk(urls[i]) = 2 /\ retries = 1
          /\ emitted[i] # None /\ emitted[i][1].action_status.ok
    /\ \E i \in Submitted :
          /\ FirstOk(urls[i]) = 1
          /\ emitted[i] # None /\ http_calls[i] = 1

\* C6 (as claimed; the code falls short of it): the response_time of every
\* emitted record is the elapsed time of the last attempt made for its URL,
\* whether that attempt succeeded or failed.
C6_ResponseTimeOfFinalAttempt ==
    \A i \in Submitted :
        (emitted[i] # None /\ http_calls[i] >= 1)
            => emitted[i][1].response_time
                 = HttpGet(urls[i], http_calls[i]).elapsed

\* C7 (as claimed; the code falls short of it): whatever follows --workers,
\* the worker count the pool is spawned with is positive.
C7_WorkersPositive ==
    pc_main \in {"send", "drop", "join", "collect"}
        => (workers >= 1 /\ spawned = workers)

\* C10: with the attempt outcomes fixed per URL, for every worker count >= 1
\* (and retry budget >= 0) the records sent once all workers have terminated
\* are, as a multiset of (url, outcome) pairs, those a single thread going
\* through the list produces; and with one worker they are sent in exactly
\* that order. So any two worker counts give equal multisets.
C10_SameResultsForAnyWorkerCount ==
    /\ (ValidConfig /\ WorkersTerminated)
          => UrlBag(Outcomes(Delivered)) = UrlBag(SequentialOutcomes(urls, retries))
    /\ (workers = 1 /\ retries >= 0 /\ pc_main # "parse")
          => /\ Len(Delivered) <= Len(urls)
             /\ Outcomes(Delivered)
                  = SubSeq(SequentialOutcomes(urls, retries), 1, Len(Delivered))

\* C10 witness: two workers have terminated after two different URLs whose
\* records were sent in the order opposite to the list's.
C10_Witness ==
    /\ workers = 2 /\ retries >= 0 /\ Len(urls) = 2
    /\ WorkersTerminated /\ Len(Delivered) = 2
    /\ Delivered[1].url = urls[2] /\ Delivered[2].url = urls[1]
    /\ urls[1] # urls[2]

\* The text of a record's serialization inside json_string when the
\* collection holds that record alone.
OnlyObject == SubSeq(json_string, 3, Len(json_string) - 2)

UrlKey == <<"u", "r", "l">>
StatusKey == <<"s", "t", "a", "t", "u", "s">>

\* C8 (as claimed; the code falls short of it): for records whose url and
\* failure message range over x, the double quote and the backslash, the
\* serialized collection is valid JSON, an array with one object per record,
\* and each object's url (and, for a Failure, its status) decodes to the
\* record's string.
C8_ValidJsonRoundTrip ==
    pc_main = "write"
        => LET d == JsonDecode(json_string)
           IN  /\ d # None
               /\ d[1].t = "array"
               /\ Len(d[1].v) = Len(all_results)
               /\ \A i \in 1..Len(all_results) :
                     /\ HasMember(d[1].v[i], UrlKey, "string", all_results[i].url)
                     /\ ~all_results[i].action_status.ok
                          => HasMember(d[1].v[i], StatusKey, "string",
                                       all_results[i].action_status.err)

\* {"url": "http://x", "status": 200, "response_time_ms": 42, "timestamp": 1700000000}
SampleOneLine ==
    <<"{", "\"", "u", "r", "l", "\"", ":", " ",
      "\"", "h", "t", "t", "p", ":", "/", "/", "x", "\"", ",", " ",
      "\"", "s", "t", "a", "t", "u", "s", "\"", ":", " ", "2", "0", "0", ",", " ",
      "\"", "r", "e", "s", "p", "o", "n", "s", "e", "_", "t", "i", "m", "e", "_",
      "m", "s", "\"", ":", " ", "4", "2", ",", " ",
      "\"", "t", "i", "m", "e", "s", "t", "a", "m", "p", "\"", ":", " ",
      "1", "7", "0", "0", "0", "0", "0", "0", "0", "0", "}">>

\* The same object with a line break after the opening brace, after each
\* comma and before the closing brace, and each field indented by four
\* spaces.
SampleFourLines ==
    <<"{", "\n",
      " ", " ", " ", " ", "\"", "u", "r", "l", "\"", ":", " ",
      "\"", "h", "t", "t", "p", ":", "/", "/", "x", "\"", ",", "\n",
      " ", " ", " ", " ", "\"", "s", "t", "a", "t", "u", "s", "\"", ":", " ",
      "2", "0", "0", ",", "\n",
      " ", " ", " ", " ", "\"", "r", "e", "s", "p", "o", "n", "s", "e", "_",
      "t", "i", "m", "e", "_", "m", "s", "\"", ":", " ", "4", "2", ",", "\n",
      " ", " ", " ", " ", "\"", "t", "i", "m", "e", "s", "t", "a", "m", "p",
      "\"", ":", " ", "1", "7", "0", "0", "0", "0", "0", "0", "0", "0", "\n", "}">>

\* C9 (as claimed): the sample success record serializes to the one-line
\* text, character for character.
C9_SampleOneLine ==
    (pc_main = "write" /\ all_results = <<SampleRecord>>)
        => OnlyObject = SampleOneLine

\* C9 (amended): the sample success record serializes to the four-line
\* text, character for character: the fields in the order url, status,
\* response_time_ms, timestamp, each on a line of its own indented by four
\* spaces; and that text decodes to the claimed object.
C9_SampleFourLines ==
    (pc_main = "write" /\ all_results = <<SampleRecord>>)
        => /\ OnlyObject = SampleFourLines
           /\ JsonDecode(OnlyObject) = JsonDecode(SampleOneLine)

\* C9 witness: the collection holding the sample record alone has been
\* serialized.
C9_Witness ==
    /\ pc_main = "write" /\ all_results = <<SampleRecord>>
    /\ Len(json_string) > 4

\* The record of the i-th enqueued URL is among those main has collected.
Collected(i) ==
    /\ emitted[i] # None
    /\ \E k \in 1..Len(all_results) : all_results[k] = emitted[i][1]

\* C11: with a positive worker count and a retry budget R >= 0, a URL that
\* uses up its budget does not stop anything: no worker panics, a worker
\* ends only when the queue is closed and empty, and once all workers have
\* ended every submitted URL has its own record, with the outcome of its
\* own attempts; when main has emptied the channel every one of them,
\* the failed URLs with their error messages included, is collected.
C11_FailureIsContained ==
    ValidConfig
        => /\ \A w \in Workers :
                 /\ wk[w].pc # "panicked"
                 /\ wk[w].pc = "done" => (queue = <<>> /\ ~sender_alive)
           /\ WorkersTerminated
                 => \A i \in Submitted :
                       /\ emitted[i] # None
                       /\ Outcome(emitted[i][1]) = SequentialOutcomes(urls, retries)[i]
                       /\ AlwaysFails(i)
                            => emitted[i][1].action_status
                                 = Err(ErrMsg(retries + 1))
                       /\ (pc_main = "collect" /\ result_chan = <<>>)
                            => Collected(i)

\* C11 witness: one worker was given a URL that always fails and then one
\* that succeeds; both records are collected, the Failure first.
C11_Witness ==
    /\ workers = 1 /\ retries = 1
    /\ urls = <<UrlDown, UrlUp>>
    /\ pc_main = "collect" /\ result_chan = <<>>
    /\ Len(all_results) = 2
    /\ all_results[1].action_status = Err(ErrMsg(2))
    /\ all_results[2].action_status.ok

\* C12: with a positive worker count and a retry budget >= 0, under fair
\* scheduling, once main has sent every URL and dropped the sender (it is
\* joining), every worker eventually ends and main gets through the joins:
\* no worker stays blocked on the mutex, in recv or in sending its record.
C12_WorkersTerminate ==
    (ValidConfig /\ pc_main = "join")
        ~> (pc_main = "collect" /\ \A w \in 1..spawned : wk[w].pc = "done")

\* C12 witness: main has joined two workers that went through two URLs.
C12_Witness ==
    /\ workers = 2 /\ retries >= 0 /\ Len(urls) = 2
    /\ pc_main = "collect" /\ joined = 2
    /\ \A w \in 1..2 : wk[w].pc = "done"
    /\ \E i \in Submitted : http_calls[i] = 2

\* A spawned worker thread that has not ended.
StillRunning(w) == wk[w].pc \notin {"unspawned", "done", "panicked"}

\* C13: the shutdown events come in order. While main spawns and sends, the
\* sender is alive (the queue is closed only after the last URL is
\* enqueued); a worker ends only after the queue is closed; main takes
\* records from the result channel only when every worker of the pool has
\* ended; so all_results is empty in every state in which some worker is
\* still running.
C13_ShutdownOrder ==
    /\ pc_main \in {"spawn", "send", "drop"} => sender_alive
    /\ pc_main \in {"join", "collect"}
          => (~sender_alive /\ next_url = Len(urls) /\ spawned = workers)
    /\ \A w \in Workers :
          wk[w].pc = "done" => (~sender_alive /\ next_url = Len(urls))
    /\ all_results # <<>>
          => /\ pc_main = "collect"
             /\ joined = workers
             /\ \A w \in 1..workers : ~StillRunning(w)
    /\ (\E w \in Workers : StillRunning(w)) => all_results = <<>>

\* C13 witness: main has taken its first record, after both workers of the
\* pool ended, while the second record is still in the channel.
C13_Witness ==
    /\ workers = 2 /\ joined = 2
    /\ pc_main = "collect"
    /\ Len(all_results) = 1 /\ Len(result_chan) = 1

\* Some worker has dequeued the i-th enqueued URL and is in its retry loop
\* (an attempt or a backoff is pending) or about to build its record.
Pending(i) ==
    \E w \in Workers : wk[w].item # None /\ wk[w].item[1].id = i

EmittedIds == {i \in Submitted : emitted[i] # None}

\* C14: a record exists for an enqueued URL only once no attempt or backoff
\* of it is pending and its retry loop has ended (by a success, or with the
\* budget used up); it was dequeued once, and its record is exactly once in
\* the result channel or the Collector, with the fields it was built with;
\* there are no other records; and (positive worker count, retry budget
\* >= 0) once all workers have ended every enqueued URL has its record.
C14_OneRecordAfterTheLoop ==
    /\ \A i \in Submitted :
          /\ Pending(i) => emitted[i] = None
          /\ emitted[i] # None
               => /\ dequeued[i] = 1
                  /\ emitted[i][1].url = urls[i]
                  /\ Cardinality({k \in 1..Len(Delivered) :
                                     Delivered[k] = emitted[i][1]}) = 1
                  /\ \/ /\ emitted[i][1].action_status.ok
                        /\ http_calls[i] = FirstOk(urls[i])
                     \/ /\ ~emitted[i][1].action_status.ok
                        /\ http_calls[i] = retries + 1
    /\ Len(Delivered) = Cardinality(EmittedIds)
    /\ \A w \in Workers :
          wk[w].pc = "emit"
              => (wk[w].status_code # None \/ wk[w].attempt >= retries)
    /\ (ValidConfig /\ WorkersTerminated) => EmittedIds = Submitted

\* C14 witness: the record of one URL is in the result channel while the
\* other URL, dequeued by the other worker, is in its backoff.
C14_Witness ==
    \E i, j \in Submitted :
        /\ emitted[i] # None
        /\ \E k \in 1..Len(result_chan) : result_chan[k] = emitted[i][1]
        /\ \E w \in Workers :
              /\ wk[w].pc = "sleep"
              /\ wk[w].item[1].id = j
        /\ emitted[j] = None

\* C15: with a retry budget R >= 0, a worker is in the backoff sleep only
\* after a failed attempt with at least one attempt left, and a failed
\* attempt with an attempt left is never followed by the end of the loop;
\* so a URL has at most R sleeps, as many sleeps as attempts less one when
\* its loop has ended, and none after a success or after attempt R + 1.
C15_SleepBetweenAttempts ==
    retries >= 0
        => /\ \A i \in Submitted :
                 /\ sleeps[i] <= retries
                 /\ sleeps[i] <= http_calls[i]
                 /\ http_calls[i] <= sleeps[i] + 1
                 /\ emitted[i] # None => sleeps[i] = http_calls[i] - 1
           /\ \A w \in Workers :
                 /\ wk[w].pc = "sleep"
                      => /\ wk[w].status_code = None
                         /\ wk[w].last_error # None
                         /\ wk[w].attempt < retries
                         /\ sleeps[wk[w].item[1].id] = http_calls[wk[w].item[1].id] - 1
                 /\ wk[w].pc = "emit"
                      => /\ sleeps[wk[w].item[1].id] = http_calls[wk[w].item[1].id] - 1
                         /\ wk[w].status_code = None => wk[w].attempt = retries

\* C15 witness: the loop of a URL that failed at first has ended after two
\* attempts and one sleep, and the loop of a URL that succeeded at once
\* after one attempt and no sleep.
C15_Witness ==
    \E i, j \in Submitted :
        /\ emitted[i] # None /\ http_calls[i] = 2 /\ sleeps[i] = 1
        /\ emitted[j] # None /\ http_calls[j] = 1 /\ sleeps[j] = 0

\* The warnings main prints for a failed File::create or write_all.
Warned(text) == \E k \in 1..Len(console) :
                    console[k].stream = "stderr" /\ console[k].text = text

\* The file was not created, or holds less than the whole JSON string.
CreateFailed == pc_main = "end" /\ file = None
WriteFailed == pc_main = "end" /\ file # None /\ file # Some(json_string)

\* C16: a failed File::create or write_all ends in a warning on stderr and
\* a normal return of main, never a panic, and no step from the serialized
\* string to the end of main changes all_results.
C16_WriteFailureIsAWarning ==
    /\ [](/\ pc_main \in {"serialize", "write", "write_all", "end"}
          /\ CreateFailed => Warned("Failed to create status.json")
          /\ WriteFailed => Warned("Failed to write JSON file"))
    /\ [][all_results' = all_results /\ pc_main' # "panicked"]_vars

\* C16 witness: main has returned after a failed write of a non-empty
\* result list, with the warning printed.
C16_Witness ==
    /\ WriteFailed
    /\ all_results # <<>>
    /\ Warned("Failed to write JSON file")

\* C19: whenever "Results written to status.json" is on the console, the
\* file exists and holds the whole JSON string, and no warning was printed.
C19_WrittenOnlyOnSuccess ==
    (\E k \in 1..Len(console) : console[k] = ResultsWritten)
        => /\ file = Some(json_string)
           /\ \A k \in 1..Len(console) : console[k].stream # "stderr"

\* C17: whatever --retries parsed to, a worker that has left the retry
\* loop of a URL has made at least one attempt at it, has status_code or
\* last_error set when it builds the record, and no worker panics.
C17_AtLeastOneAttempt ==
    \A w \in Workers :
        /\ wk[w].pc # "panicked"
        /\ wk[w].pc = "emit"
             => /\ http_calls[wk[w].item[1].id] >= 1
                /\ wk[w].status_code # None \/ wk[w].last_error # None

\* The worker is in the body of its loop: attempting, sleeping in backoff,
\* or building, printing and sending the record.
InLoopBody(w) == wk[w].pc \in {"attempt", "sleep", "emit"}

\* C18: the queue mutex is held by a worker exactly while that worker is
\* in recv; no worker that is attempting, sleeping, printing or sending
\* holds it, so a worker in the body of its loop keeps no other worker
\* from the lock.
C18_LockOnlyAroundRecv ==
    /\ mutex \in {0} \cup 1..spawned
    /\ \A w \in Workers :
          /\ mutex = w <=> wk[w].pc = "recv"
          /\ InLoopBody(w) => mutex # w
    /\ (\E w \in Workers : InLoopBody(w)) /\ mutex # 0 => ~InLoopBody(mutex)

\* C18 witness: two workers, each in the retry loop of its own URL at the
\* same time, with the mutex free.
C18_Witness ==
    /\ workers = 2
    /\ mutex = 0
    /\ \A w \in 1..workers : wk[w].pc \in {"attempt", "sleep"}
    /\ wk[1].item # wk[2].item
====
